---- MODULE Spec2Model ----
(***************************************************************************)
(* Model of migrate_data.py: the legacy-workbook reconciliation run.       *)
(*                                                                         *)
(* Strings of the program are sequences of one-character strings, so that  *)
(* the regular-expression tests, strptime, strftime and str.contains are   *)
(* computed on the characters as the code computes them.  Calendar dates   *)
(* are proleptic Gregorian ordinals (datetime.date.toordinal).             *)
(***************************************************************************)
EXTENDS Integers, Sequences, FiniteSets, TLC

VARIABLES
    now,            \* ordinal of the day of datetime.datetime.now()
    zeroPad,        \* whether the C library pads %#m and %#d (glibc) or not (msvcrt)
    workbook,       \* whether the Excel workbook exists
    headers,        \* combined[sheet][0] for the sheets of interest, concatenated
    nameCells,      \* the column-0 cells of the data rows of the sheets, concatenated
    users,          \* data/users.csv: the rows read
    hasNameCol,     \* whether data/opportunities.csv has a column "name"
    oppTable,       \* data/opportunities.csv: the rows read
    col,            \* position of the column loop of get_legacy_opportunities, 0 before it
    row,            \* position of the validation loop over the DataFrame, 0 before it
    opportunities,  \* the dict date_str -> names, in insertion order
    df,             \* the opportunities DataFrame of generate_migrated_opportunities
    usersOut,       \* data/users_migrated.csv: its rows, or Unwritten
    oppOut,         \* data/opportunities_migrated.csv: its rows, or Unwritten
    auditOut,       \* whether the combined JSON was written
    pc,             \* position of the run
    abort,          \* how the run was cut short, "none" if it was not
    exitCode,       \* exit status of the process, Running until it ends
    run             \* 1 for the first run, 2 for the run on the first run's output

inputs == <<now, zeroPad, workbook, headers, nameCells, hasNameCol>>

vars == <<now, zeroPad, workbook, headers, nameCells, users, hasNameCol, oppTable,
          col, row, opportunities, df, usersOut, oppOut, auditOut, pc, abort, exitCode, run>>

(***************************************************************************)
(* Characters and numbers                                                  *)
(***************************************************************************)
DigitChars == <<"0", "1", "2", "3", "4", "5", "6", "7", "8", "9">>

IsDigit(c) == \E i \in 1..10 : DigitChars[i] = c

DigitVal(c) == CHOOSE i \in 0..9 : DigitChars[i + 1] = c

AllDigits(s) == \A i \in 1..Len(s) : IsDigit(s[i])

RECURSIVE ToInt(_)
ToInt(s) ==
    IF s = <<>> THEN 0
    ELSE ToInt(SubSeq(s, 1, Len(s) - 1)) * 10 + DigitVal(s[Len(s)])

RECURSIVE ToStr(_)
ToStr(n) ==
    IF n < 10 THEN <<DigitChars[n + 1]>>
    ELSE ToStr(n \div 10) \o <<DigitChars[(n % 10) + 1]>>

RECURSIVE ZFill(_, _)
ZFill(s, w) == IF Len(s) >= w THEN s ELSE ZFill(<<"0">> \o s, w)

\* str.split(sep) for a one-character separator
RECURSIVE SplitOn(_, _)
SplitOn(s, sep) ==
    IF \A i \in 1..Len(s) : s[i] # sep THEN <<s>>
    ELSE LET k == CHOOSE i \in 1..Len(s) :
                      s[i] = sep /\ \A j \in 1..(i - 1) : s[j] # sep
         IN <<SubSeq(s, 1, k - 1)>> \o SplitOn(SubSeq(s, k + 1, Len(s)), sep)

\* pandas Series.str.contains / the substring test, for one value
Contains(s, sub) ==
    \E i \in 1..(Len(s) - Len(sub) + 1) : SubSeq(s, i, i + Len(sub) - 1) = sub

EndsWith(s, suf) ==
    Len(s) >= Len(suf) /\ SubSeq(s, Len(s) - Len(suf) + 1, Len(s)) = suf

(***************************************************************************)
(* datetime: ordinals, weekdays, strptime, strftime                        *)
(***************************************************************************)
IsLeap(y) == y % 4 = 0 /\ (y % 100 # 0 \/ y % 400 = 0)

DaysInMonth(y, m) ==
    IF m = 2 THEN (IF IsLeap(y) THEN 29 ELSE 28)
    ELSE IF m \in {4, 6, 9, 11} THEN 30 ELSE 31

DaysBeforeYear(y) ==
    (y - 1) * 365 + (y - 1) \div 4 - (y - 1) \div 100 + (y - 1) \div 400

RECURSIVE DaysBeforeMonth(_, _)
DaysBeforeMonth(y, m) ==
    IF m = 1 THEN 0 ELSE DaysBeforeMonth(y, m - 1) + DaysInMonth(y, m - 1)

Ymd2Ord(y, m, d) == DaysBeforeYear(y) + DaysBeforeMonth(y, m) + d

Ord2Ymd(n) ==
    LET g == ((n - 1) * 400) \div 146097 + 1
        y == IF DaysBeforeYear(g) >= n THEN g - 1
             ELSE IF DaysBeforeYear(g + 1) < n THEN g + 1 ELSE g
        r == n - DaysBeforeYear(y)
        m == CHOOSE k \in 1..12 :
                 DaysBeforeMonth(y, k) < r /\ r <= DaysBeforeMonth(y, k) + DaysInMonth(y, k)
    IN [y |-> y, m |-> m, d |-> r - DaysBeforeMonth(y, m)]

\* date.weekday(): Monday is 0, Saturday 5, Sunday 6
Weekday(n) == (n + 6) % 7

\* the value of a failed parse (strptime raises ValueError)
ParseError == 0 - 1

\* the %m and %d fields of strptime: 1 or 2 digits, no "0" and no "00"
FieldOK(s, hi) ==
    /\ Len(s) \in {1, 2}
    /\ AllDigits(s)
    /\ ToInt(s) >= 1
    /\ ToInt(s) <= hi

\* the year field: %Y takes exactly 4 digits, %y exactly 2 (00-68 -> 20xx, 69-99 -> 19xx)
YearOf(s) ==
    IF ~AllDigits(s) THEN ParseError
    ELSE IF Len(s) = 4 THEN (IF ToInt(s) >= 1 THEN ToInt(s) ELSE ParseError)
    ELSE IF Len(s) = 2 THEN (IF ToInt(s) <= 68 THEN 2000 + ToInt(s) ELSE 1900 + ToInt(s))
    ELSE ParseError

\* strptime(s, '%m/%d/%Y') or, with twoDigit, strptime(s, '%m/%d/%y'): the ordinal
StrpMDY(s, twoDigit) ==
    LET p == SplitOn(s, "/")
    IN  IF Len(p) # 3 THEN ParseError
        ELSE IF Len(p[3]) # (IF twoDigit THEN 2 ELSE 4) THEN ParseError
        ELSE IF YearOf(p[3]) = ParseError THEN ParseError
        ELSE IF ~FieldOK(p[1], 12) THEN ParseError
        ELSE IF ~FieldOK(p[2], DaysInMonth(YearOf(p[3]), ToInt(p[1]))) THEN ParseError
        ELSE Ymd2Ord(YearOf(p[3]), ToInt(p[1]), ToInt(p[2]))

\* strptime of the date part 'YYYY-MM-DD' of '%Y-%m-%d ...': the ordinal
StrpISODate(s) ==
    LET p == SplitOn(s, "-")
    IN  IF Len(p) # 3 THEN ParseError
        ELSE IF Len(p[1]) # 4 \/ YearOf(p[1]) = ParseError THEN ParseError
        ELSE IF ~FieldOK(p[2], 12) THEN ParseError
        ELSE IF ~FieldOK(p[3], DaysInMonth(YearOf(p[1]), ToInt(p[2]))) THEN ParseError
        ELSE Ymd2Ord(YearOf(p[1]), ToInt(p[2]), ToInt(p[3]))

\* strftime('%#m/%#d/%Y'): '#' removes the padding on msvcrt and is ignored by glibc
FmtMDY(n, pad) ==
    LET t == Ord2Ymd(n)
        w == IF pad THEN 2 ELSE 1
    IN ZFill(ToStr(t.m), w) \o <<"/">> \o ZFill(ToStr(t.d), w) \o <<"/">> \o ZFill(ToStr(t.y), 4)

\* strftime('%Y-%m-%d')
FmtISODate(n) ==
    LET t == Ord2Ymd(n)
    IN ZFill(ToStr(t.y), 4) \o <<"-">> \o ZFill(ToStr(t.m), 2) \o <<"-">> \o ZFill(ToStr(t.d), 2)

(***************************************************************************)
(* get_legacy_opportunities                                                *)
(***************************************************************************)
seventh == "seventh"

riverside == "riverside"

menchaca == "menchaca"

meal_prep == "Meal Prep"

first_day_of_saturday == StrpMDY(<<"4", "/", "5", "/", "2", "0", "2", "5">>, FALSE)

first_day_of_riverside == StrpMDY(<<"1", "0", "/", "1", "8", "/", "2", "0", "2", "5">>, FALSE)

missed_day == StrpMDY(<<"3", "/", "3", "/", "2", "0", "2", "4">>, FALSE)

ignored_columns ==
    { <<"V", "o", "l", "u", "n", "t", "e", "e", "r", "s", ":">>,
      <<"T", "o", "t", "a", "l", " ", "H", "o", "u", "r", "s", ":">> }

\* the dict, in insertion order: k in d, d[k] = v
HasKey(d, k) == \E i \in 1..Len(d) : d[i].date = k

DictSet(d, k, v) ==
    IF HasKey(d, k)
    THEN [i \in 1..Len(d) |-> IF d[i].date = k THEN [date |-> k, names |-> v] ELSE d[i]]
    ELSE Append(d, [date |-> k, names |-> v])

\* re.match(r'^\d{4}-\d{2}-\d{2} 00:00:00$', col)
IsISOHeader(s) ==
    /\ Len(s) = 19
    /\ \A i \in {1, 2, 3, 4, 6, 7, 9, 10} : IsDigit(s[i])
    /\ s[5] = "-" /\ s[8] = "-"
    /\ SubSeq(s, 11, 19) = <<" ", "0", "0", ":", "0", "0", ":", "0", "0">>

\* the three fields of a date between slashes: \d{1,2}/\d{1,2}/\d{lo,hi}
IsSlashDate(s, lo, hi) ==
    LET p == SplitOn(s, "/")
    IN  /\ Len(p) = 3
        /\ \A i \in 1..3 : AllDigits(p[i])
        /\ Len(p[1]) \in {1, 2}
        /\ Len(p[2]) \in {1, 2}
        /\ Len(p[3]) \in lo..hi

\* re.match(r'^\d{1,2}/\d{1,2}/\d{4}$', col)
IsLiteralDate(s) == IsSlashDate(s, 4, 4)

\* re.match(r'^\d{1,2}/\d{1,2}/\d{2,4}\-\d{1,2}\/\d{1,2}\/\d{2,4}$', col)
IsDateRange(s) ==
    LET p == SplitOn(s, "-")
    IN Len(p) = 2 /\ IsSlashDate(p[1], 2, 4) /\ IsSlashDate(p[2], 2, 4)

\* which branch of the column loop a header cell takes
Branch(s) ==
    IF IsISOHeader(s) \/ IsLiteralDate(s) THEN "literal"
    ELSE IF s \in ignored_columns THEN "ignored"
    ELSE IF IsDateRange(s) THEN "range"
    ELSE "unrecognized"

\* Classification with each boundary date left in the older era
ClassificationOldEra(col_date) ==
    IF Weekday(col_date) = 5
    THEN IF col_date <= first_day_of_saturday THEN <<meal_prep>>
         ELSE IF col_date <= first_day_of_riverside THEN <<seventh, meal_prep>>
         ELSE <<riverside, seventh, meal_prep>>
    ELSE IF col_date <= first_day_of_saturday THEN <<seventh>>
         ELSE <<menchaca>>

\* the weekday and era classification of a Saturday or Sunday
Classification(col_date) ==
    IF Weekday(col_date) = 5
    THEN IF col_date < first_day_of_saturday THEN <<meal_prep>>
         ELSE IF col_date < first_day_of_riverside THEN <<seventh, meal_prep>>
         ELSE <<riverside, seventh, meal_prep>>
    ELSE IF col_date < first_day_of_saturday THEN <<seventh>>
         ELSE <<menchaca>>

\* LiteralDate writing only the dates that have no entry yet
LiteralDateKeepsFirst(opps, s, today, pad) ==
    LET iso == IsISOHeader(s)
        isoDate == StrpISODate(SubSeq(s, 1, 10))
        c == IF iso /\ isoDate # ParseError THEN FmtMDY(isoDate, pad) ELSE s
        col_date == StrpMDY(c, FALSE)
    IN  IF (iso /\ isoDate = ParseError) \/ col_date = ParseError
        THEN [opps |-> opps, out |-> "exception"]
        ELSE IF col_date > today THEN [opps |-> opps, out |-> "ok"]
        ELSE IF col_date = missed_day THEN [opps |-> opps, out |-> "ok"]
        ELSE IF Weekday(col_date) \in {5, 6}
        THEN [opps |-> IF HasKey(opps, FmtMDY(col_date, pad)) THEN opps
                       ELSE DictSet(opps, FmtMDY(col_date, pad), Classification(col_date)),
              out |-> "ok"]
        ELSE [opps |-> opps, out |-> "weekday"]

\* the literal-date branch: the dict after it and how the branch ended
LiteralDate(opps, s, today, pad) ==
    LET iso == IsISOHeader(s)
        isoDate == StrpISODate(SubSeq(s, 1, 10))
        c == IF iso /\ isoDate # ParseError THEN FmtMDY(isoDate, pad) ELSE s
        col_date == StrpMDY(c, FALSE)
    IN  IF (iso /\ isoDate = ParseError) \/ col_date = ParseError
        THEN [opps |-> opps, out |-> "exception"]
        ELSE IF col_date > today THEN [opps |-> opps, out |-> "ok"]
        ELSE IF col_date = missed_day THEN [opps |-> opps, out |-> "ok"]
        ELSE IF Weekday(col_date) \in {5, 6}
        THEN [opps |-> DictSet(opps, FmtMDY(col_date, pad), Classification(col_date)),
              out |-> "ok"]
        ELSE [opps |-> opps, out |-> "weekday"]

\* RangeLoop writing every Sunday of the range, entry or not
RECURSIVE RangeLoopOverwrites(_, _, _, _)
RangeLoopOverwrites(opps, current_date, end_date, pad) ==
    IF current_date > end_date THEN opps
    ELSE IF current_date = missed_day
    THEN RangeLoopOverwrites(opps, current_date + 1, end_date, pad)
    ELSE IF Weekday(current_date) = 6
    THEN RangeLoopOverwrites(DictSet(opps, FmtMDY(current_date, pad), <<seventh>>),
                             current_date + 1, end_date, pad)
    ELSE RangeLoopOverwrites(opps, current_date + 1, end_date, pad)

\* the while loop of the date-range branch
RECURSIVE RangeLoop(_, _, _, _)
RangeLoop(opps, current_date, end_date, pad) ==
    IF current_date > end_date THEN opps
    ELSE IF current_date = missed_day
    THEN RangeLoop(opps, current_date + 1, end_date, pad)
    ELSE IF Weekday(current_date) = 6 /\ ~HasKey(opps, FmtMDY(current_date, pad))
    THEN RangeLoop(DictSet(opps, FmtMDY(current_date, pad), <<seventh>>),
                   current_date + 1, end_date, pad)
    ELSE RangeLoop(opps, current_date + 1, end_date, pad)

\* the end points of a date-range header cell
RangeStart(s) ==
    LET start_str == SplitOn(s, "-")[1]
    IN StrpMDY(start_str, Len(SplitOn(start_str, "/")[3]) = 2)

RangeEnd(s) ==
    LET end_str == SplitOn(s, "-")[2]
    IN StrpMDY(end_str, Len(SplitOn(end_str, "/")[3]) = 2)

\* the date-range branch
DateRange(opps, s, pad) ==
    IF RangeStart(s) = ParseError \/ RangeEnd(s) = ParseError
    THEN [opps |-> opps, out |-> "exception"]
    ELSE [opps |-> RangeLoop(opps, RangeStart(s), RangeEnd(s), pad), out |-> "ok"]

\* one pass of the column loop
ProcessColumn(opps, s, today, pad) ==
    IF Branch(s) = "literal" THEN LiteralDate(opps, s, today, pad)
    ELSE IF Branch(s) = "ignored" THEN [opps |-> opps, out |-> "ok"]
    ELSE IF Branch(s) = "range" THEN DateRange(opps, s, pad)
    ELSE [opps |-> opps, out |-> "unrecognized"]

\* the whole function on a header sequence
RECURSIVE LegacyFrom(_, _, _, _)
LegacyFrom(opps, cells, today, pad) ==
    IF cells = <<>> THEN [opps |-> opps, out |-> "ok"]
    ELSE LET r == ProcessColumn(opps, Head(cells), today, pad)
         IN IF r.out # "ok" THEN r ELSE LegacyFrom(r.opps, Tail(cells), today, pad)

get_legacy_opportunities(cells, today, pad) == LegacyFrom(<<>>, cells, today, pad)

(***************************************************************************)
(* How a run ends                                                          *)
(***************************************************************************)
Running == 0 - 1

\* the exit status: an Exception reaches main's handler, which returns 1;
\* sys.exit(message) ends the process with status 1, sys.exit() with status 0
ExitStatus(out) ==
    IF out = "exception" THEN 1
    ELSE IF out = "weekday" THEN 1
    ELSE 0

NoFile == [written |-> FALSE, rows |-> <<>>]

(***************************************************************************)
(* The inputs of the classifier                                            *)
(***************************************************************************)
MaxCols == 2

SatBeforeEras == <<"3", "/", "2", "9", "/", "2", "0", "2", "5">>

SatFirstDay == <<"4", "/", "5", "/", "2", "0", "2", "5">>

SatRiversideISO ==
    <<"2", "0", "2", "5", "-", "1", "0", "-", "1", "8", " ", "0", "0", ":", "0", "0", ":", "0", "0">>

SunBeforeEras == <<"3", "/", "3", "0", "/", "2", "0", "2", "5">>

SunMenchaca == <<"4", "/", "6", "/", "2", "0", "2", "5">>

MissedDayCell == <<"3", "/", "3", "/", "2", "0", "2", "4">>

SatLate == <<"1", "0", "/", "2", "5", "/", "2", "0", "2", "5">>

MondayCell == <<"4", "/", "7", "/", "2", "0", "2", "5">>

NoSuchDay == <<"2", "/", "3", "0", "/", "2", "0", "2", "5">>

VolunteersCell == <<"V", "o", "l", "u", "n", "t", "e", "e", "r", "s", ":">>

NameCell == <<"N", "a", "m", "e">>

RangeAcrossEras ==
    <<"3", "/", "3", "0", "/", "2", "5", "-", "4", "/", "6", "/", "2", "0", "2", "5">>

RangeOverMissedDay ==
    <<"3", "/", "1", "/", "2", "0", "2", "4", "-", "3", "/", "4", "/", "2", "0", "2", "4">>

RangeLate ==
    <<"1", "0", "/", "1", "9", "/", "2", "0", "2", "5", "-",
      "1", "0", "/", "2", "6", "/", "2", "0", "2", "5">>

HeaderCells ==
    { SatBeforeEras, SatFirstDay, SatRiversideISO, SunBeforeEras, SunMenchaca,
      MissedDayCell, SatLate, MondayCell, NoSuchDay, VolunteersCell, NameCell,
      RangeAcrossEras, RangeOverMissedDay, RangeLate }

\* the days a run happens on: the first Saturday of the second era, and a later Monday
NowDays == { Ymd2Ord(2025, 4, 5), Ymd2Ord(2025, 10, 20) }

SeqsUpTo(S, n) == UNION { [1..k -> S] : k \in 0..n }

(***************************************************************************)
(* get_legacy_opportunities, one header cell at a time                     *)
(***************************************************************************)
\* the column loop goes on, or the run ends
ColumnDone(r) ==
    /\ opportunities' = r.opps
    /\ IF r.out = "ok"
       THEN /\ col' = col + 1
            /\ UNCHANGED <<pc, abort, exitCode>>
       ELSE /\ pc' = "exited"
            /\ abort' = r.out
            /\ exitCode' = ExitStatus(r.out)
            /\ UNCHANGED col
    /\ UNCHANGED <<inputs, users, oppTable, row, df, usersOut, oppOut, auditOut, run>>

LiteralDateColumn ==
    /\ pc = "classify"
    /\ col <= Len(headers)
    /\ Branch(headers[col]) = "literal"
    /\ ColumnDone(LiteralDate(opportunities, headers[col], now, zeroPad))

IgnoredColumn ==
    /\ pc = "classify"
    /\ col <= Len(headers)
    /\ Branch(headers[col]) = "ignored"
    /\ ColumnDone([opps |-> opportunities, out |-> "ok"])

DateRangeColumn ==
    /\ pc = "classify"
    /\ col <= Len(headers)
    /\ Branch(headers[col]) = "range"
    /\ ColumnDone(DateRange(opportunities, headers[col], zeroPad))

UnrecognizedColumn ==
    /\ pc = "classify"
    /\ col <= Len(headers)
    /\ Branch(headers[col]) = "unrecognized"
    /\ ColumnDone([opps |-> opportunities, out |-> "unrecognized"])

ReturnOpportunities ==
    /\ pc = "classify"
    /\ col > Len(headers)
    /\ pc' = "validate"
    /\ row' = 1
    /\ UNCHANGED <<inputs, users, oppTable, col, opportunities, df, usersOut, oppOut,
                   auditOut, abort, exitCode, run>>

InitClassify ==
    /\ now \in NowDays
    /\ zeroPad \in BOOLEAN
    /\ workbook = TRUE
    /\ headers \in SeqsUpTo(HeaderCells, MaxCols)
    /\ nameCells = <<>>
    /\ users = <<>>
    /\ hasNameCol = TRUE
    /\ oppTable = <<>>
    /\ col = 1
    /\ row = 0
    /\ opportunities = <<>>
    /\ df = <<>>
    /\ usersOut = NoFile
    /\ oppOut = NoFile
    /\ auditOut = FALSE
    /\ pc = "classify"
    /\ abort = "none"
    /\ exitCode = Running
    /\ run = 1

NextClassify ==
    \/ LiteralDateColumn
    \/ IgnoredColumn
    \/ DateRangeColumn
    \/ UnrecognizedColumn
    \/ ReturnOpportunities

SpecClassify == InitClassify /\ [][NextClassify]_vars

(***************************************************************************)
(* Names: get_all_names, get_new_value, generate_migrated_users            *)
(***************************************************************************)
LowerChars == <<"a", "b", "c", "d", "e", "f", "g", "h", "i", "j", "k", "l", "m",
                "n", "o", "p", "q", "r", "s", "t", "u", "v", "w", "x", "y", "z">>

UpperChars == <<"A", "B", "C", "D", "E", "F", "G", "H", "I", "J", "K", "L", "M",
                "N", "O", "P", "Q", "R", "S", "T", "U", "V", "W", "X", "Y", "Z">>

\* the order of the characters (space, capitals, small letters), as their code points
CharRank(c) ==
    IF c = " " THEN 0
    ELSE IF \E i \in 1..26 : UpperChars[i] = c
    THEN CHOOSE i \in 1..26 : UpperChars[i] = c
    ELSE 26 + (CHOOSE i \in 1..26 : LowerChars[i] = c)

LowerChar(c) ==
    IF \E i \in 1..26 : UpperChars[i] = c
    THEN LowerChars[CHOOSE i \in 1..26 : UpperChars[i] = c]
    ELSE c

UpperChar(c) ==
    IF \E i \in 1..26 : LowerChars[i] = c
    THEN UpperChars[CHOOSE i \in 1..26 : LowerChars[i] = c]
    ELSE c

\* str.lower()
Lower(s) == [i \in 1..Len(s) |-> LowerChar(s[i])]

\* str.capitalize()
Capitalize(w) == [i \in 1..Len(w) |-> IF i = 1 THEN UpperChar(w[i]) ELSE LowerChar(w[i])]

\* str.split(): the words between runs of spaces
SplitWords(s) == SelectSeq(SplitOn(s, " "), LAMBDA w : w # <<>>)

\* ' '.join(words)
RECURSIVE JoinWords(_)
JoinWords(ws) ==
    IF ws = <<>> THEN <<>>
    ELSE IF Len(ws) = 1 THEN ws[1]
    ELSE ws[1] \o <<" ">> \o JoinWords(Tail(ws))

NormalName(s) ==
    LET ws == SplitWords(s)
    IN JoinWords([i \in 1..Len(ws) |-> Capitalize(ws[i])])

\* the order of str
RECURSIVE StrLess(_, _)
StrLess(a, b) ==
    IF b = <<>> THEN FALSE
    ELSE IF a = <<>> THEN TRUE
    ELSE IF a[1] # b[1] THEN CharRank(a[1]) < CharRank(b[1])
    ELSE StrLess(Tail(a), Tail(b))

\* sorted(S)
RECURSIVE Sorted(_)
Sorted(S) ==
    IF S = {} THEN <<>>
    ELSE LET least == CHOOSE x \in S : \A y \in S \ {x} : StrLess(x, y)
         IN <<least>> \o Sorted(S \ {least})

\* a cell of the name column: a string, or a value that is no string (None, a number)
StrCell(s) == [isStr |-> TRUE, s |-> s]

NotStrCell == [isStr |-> FALSE, s |-> <<>>]

\* get_all_names: the set it sorts into its list
get_all_names(cells) ==
    { NormalName(cells[i].s) :
        i \in { j \in 1..Len(cells) : cells[j].isStr /\ Len(SplitWords(cells[j].s)) >= 2 } }

\* pandas reads an empty field as NaN
NaN == <<>>

\* get_new_value(csv_file, "name"): the values left by dropna
get_new_value(rows) == { rows[i].name : i \in { j \in 1..Len(rows) : rows[j].name # NaN } }

\* get_email_from_name and get_phone_from_name call row[0].lower() on each row of
\* the volunteer sheet up to the first match: a cell that is no string raises
LookupRaises(name, cells) ==
    \E i \in 1..Len(cells) :
        /\ ~cells[i].isStr
        /\ \A j \in 1..(i - 1) : Lower(cells[j].s) # Lower(name)

\* NewUser writing the name in lower case
NewUserLowered(name) == [id |-> "uuid4", name |-> Lower(name), admin |-> "f"]

\* the row of generate_migrated_users for a legacy-only name
NewUser(name) == [id |-> "uuid4", name |-> name, admin |-> "f"]

\* generate_migrated_users: the migrated table, or the exception
generate_migrated_users(only_in_legacy, cells, rows) ==
    LET names == Sorted(only_in_legacy)
    IN  IF \E i \in 1..Len(names) : LookupRaises(names[i], cells)
        THEN [rows |-> rows, out |-> "exception"]
        ELSE [rows |-> rows \o [i \in 1..Len(names) |-> NewUser(names[i])], out |-> "ok"]

\* do_merging up to the call of generate_migrated_opportunities
do_merging(cells, rows) ==
    LET names_legacy == get_all_names(cells)
        names_new == get_new_value(rows)
        only_in_legacy == names_legacy \ names_new
    IN generate_migrated_users(only_in_legacy, cells, rows)

(***************************************************************************)
(* generate_migrated_opportunities                                         *)
(***************************************************************************)
\* strptime(date, '%Y-%m-%d %H:%M:%S%z') after '+00' is made '+0000': the
\* calendar day of the timestamp, in its own offset
StrpTimestamp(datetime) ==
    LET s == IF EndsWith(datetime, <<"+", "0", "0">>) THEN datetime \o <<"0", "0">> ELSE datetime
    IN  IF Len(s) # 24 THEN ParseError
        ELSE IF ~( /\ s[11] = " " /\ s[14] = ":" /\ s[17] = ":"
                   /\ s[20] \in {"+", "-"}
                   /\ \A i \in {12, 13, 15, 16, 18, 19, 21, 22, 23, 24} : IsDigit(s[i]) )
        THEN ParseError
        ELSE IF ToInt(SubSeq(s, 12, 13)) > 23 \/ ToInt(SubSeq(s, 15, 16)) > 59
                \/ ToInt(SubSeq(s, 18, 19)) > 61 \/ ToInt(SubSeq(s, 23, 24)) > 59
        THEN ParseError
        ELSE StrpISODate(SubSeq(s, 1, 10))

\* RowVerdict taking the day of the run for a day to come
RowVerdictTodayToCome(r, opps, today, pad) ==
    LET day == StrpTimestamp(r.datetime)
    IN  IF day = ParseError THEN "exception"
        ELSE IF HasKey(opps, FmtMDY(day, pad)) THEN "ok"
        ELSE IF StrpMDY(FmtMDY(day, pad), FALSE) >= today THEN "ok"
        ELSE "unexplained"

\* one pass of the validation loop: "ok" (continue), "exception" or "unexplained"
RowVerdict(r, opps, today, pad) ==
    LET day == StrpTimestamp(r.datetime)
    IN  IF day = ParseError THEN "exception"
        ELSE IF HasKey(opps, FmtMDY(day, pad)) THEN "ok"
        ELSE IF StrpMDY(FmtMDY(day, pad), FALSE) > today THEN "ok"
        ELSE "unexplained"

\* df[(df['datetime'].str.contains(date)) & (df['name'] == opportunity_name)]
Matches(table, date, opportunity_name) ==
    { i \in 1..Len(table) :
        Contains(table[i].datetime, date) /\ table[i].name = opportunity_name }

\* the value of a column the new row does not set (NaN after the concat): no label
NoValue == ""

\* the row synthesized for a date of the map and one of its names
NewOpportunity(date, opportunity_name) ==
    [ id |-> "uuid4",
      title |-> opportunity_name,
      datetime |-> FmtISODate(StrpMDY(date, FALSE))
                     \o <<" ", "0", "9", ":", "0", "0", ":", "0", "0", "-", "0", "5", "0", "0">>,
      name |-> NoValue ]

\* Concat with the frames in the other order
ConcatNewFirst(table, new_row) == <<new_row>> \o table

\* pd.concat([df, pd.DataFrame([new_row])], ignore_index=True)
Concat(table, new_row) == Append(table, new_row)

\* the inner loop over the names of one date
RECURSIVE MergeNames(_, _, _)
MergeNames(table, date, names) ==
    IF names = <<>> THEN table
    ELSE IF Matches(table, date, Head(names)) = {}
    THEN MergeNames(Concat(table, NewOpportunity(date, Head(names))), date, Tail(names))
    ELSE MergeNames(table, date, Tail(names))

\* the loop over legacy_opportunities.items()
RECURSIVE MergeItems(_, _)
MergeItems(table, opps) ==
    IF opps = <<>> THEN table
    ELSE MergeItems(MergeNames(table, Head(opps).date, Head(opps).names), Tail(opps))

(***************************************************************************)
(* The run: main, do_merging, generate_migrated_opportunities              *)
(***************************************************************************)
\* an Exception or a sys.exit ends the run
Exit(out) ==
    /\ pc' = "exited"
    /\ abort' = out
    /\ exitCode' = ExitStatus(out)

LoadWorkbook ==
    /\ pc = "start"
    /\ IF workbook
       THEN pc' = "users" /\ UNCHANGED <<abort, exitCode>>
       ELSE Exit("exception")
    /\ UNCHANGED <<inputs, users, oppTable, col, row, opportunities, df, usersOut, oppOut,
                   auditOut, run>>

MergeUsers ==
    /\ pc = "users"
    /\ LET r == do_merging(nameCells, users)
       IN IF r.out = "ok"
          THEN /\ usersOut' = [written |-> TRUE, rows |-> r.rows]
               /\ pc' = "read"
               /\ UNCHANGED <<abort, exitCode>>
          ELSE /\ Exit(r.out)
               /\ UNCHANGED usersOut
    /\ UNCHANGED <<inputs, users, oppTable, col, row, opportunities, df, oppOut, auditOut, run>>

ReadOpportunities ==
    /\ pc = "read"
    /\ df' = oppTable
    /\ opportunities' = <<>>
    /\ col' = 1
    /\ pc' = "classify"
    /\ UNCHANGED <<inputs, users, oppTable, row, usersOut, oppOut, auditOut, abort,
                   exitCode, run>>

ValidateRow ==
    /\ pc = "validate"
    /\ row <= Len(df)
    /\ LET v == RowVerdict(df[row], opportunities, now, zeroPad)
       IN IF v = "ok"
          THEN row' = row + 1 /\ UNCHANGED <<pc, abort, exitCode>>
          ELSE Exit(v) /\ UNCHANGED row
    /\ UNCHANGED <<inputs, users, oppTable, col, opportunities, df, usersOut, oppOut,
                   auditOut, run>>

\* the merge loop; df['name'] raises KeyError when the table has no such column
AppendMissing ==
    /\ pc = "validate"
    /\ row > Len(df)
    /\ IF opportunities # <<>> /\ ~hasNameCol
       THEN Exit("exception") /\ UNCHANGED df
       ELSE /\ df' = MergeItems(df, opportunities)
            /\ pc' = "write"
            /\ UNCHANGED <<abort, exitCode>>
    /\ UNCHANGED <<inputs, users, oppTable, col, row, opportunities, usersOut, oppOut,
                   auditOut, run>>

WriteOpportunities ==
    /\ pc = "write"
    /\ oppOut' = [written |-> TRUE, rows |-> df]
    /\ pc' = "dump"
    /\ UNCHANGED <<inputs, users, oppTable, col, row, opportunities, df, usersOut, auditOut,
                   abort, exitCode, run>>

DumpJSON ==
    /\ pc = "dump"
    /\ auditOut' = TRUE
    /\ pc' = "exited"
    /\ exitCode' = 0
    /\ UNCHANGED <<inputs, users, oppTable, col, row, opportunities, df, usersOut, oppOut,
                   abort, run>>

\* after a run that reported success, the tool is run again on the tables it
\* wrote, with the same workbook
Rerun ==
    /\ pc = "exited"
    /\ exitCode = 0
    /\ run = 1
    /\ usersOut.written
    /\ users' = usersOut.rows
    /\ oppTable' = IF oppOut.written THEN oppOut.rows ELSE oppTable
    /\ usersOut' = NoFile
    /\ oppOut' = NoFile
    /\ auditOut' = FALSE
    /\ df' = <<>>
    /\ opportunities' = <<>>
    /\ col' = 0
    /\ row' = 0
    /\ pc' = "start"
    /\ abort' = "none"
    /\ exitCode' = Running
    /\ run' = 2
    /\ UNCHANGED inputs

(***************************************************************************)
(* The inputs of the merges, and the specifications                        *)
(***************************************************************************)
MaxOppCols == 2

MaxRows == 2

MaxNames == 2

MaxUsers == 2

OppCells == { SatFirstDay, SunMenchaca, RangeAcrossEras }

\* a row of data/opportunities.csv
OppRow(id, title, datetime) == [id |-> id, title |-> title, datetime |-> datetime, name |-> title]

RowSat ==
    OppRow("o1", "seventh",
           <<"2", "0", "2", "5", "-", "0", "4", "-", "0", "5", " ",
             "1", "4", ":", "0", "0", ":", "0", "0", "+", "0", "0">>)

RowSun ==
    OppRow("o2", "menchaca",
           <<"2", "0", "2", "5", "-", "0", "4", "-", "0", "6", " ",
             "0", "9", ":", "0", "0", ":", "0", "0", "-", "0", "5", "0", "0">>)

RowMonday ==
    OppRow("o3", "seventh",
           <<"2", "0", "2", "5", "-", "0", "4", "-", "0", "7", " ",
             "1", "4", ":", "0", "0", ":", "0", "0", "+", "0", "0">>)

RowSlash == OppRow("o5", "menchaca", <<"4", "/", "6", "/", "2", "0", "2", "5">>)

OppRows == { RowSat, RowSun, RowMonday, RowSlash }

JoDo == <<"j", "o", " ", "d", "o">>

JoDoShouted == <<"J", "O", " ", " ", "D", "O">>

AlYu == <<"A", "l", " ", "y", "U">>

OneWord == <<"j", "o">>

NameCellValues == { StrCell(JoDo), StrCell(JoDoShouted), StrCell(AlYu), StrCell(OneWord), NotStrCell }

UserRow(id, name) == [id |-> id, name |-> name, admin |-> "f"]

UserRows ==
    { UserRow("u1", <<"J", "o", " ", "D", "o">>), UserRow("u2", JoDo), UserRow("u3", NaN) }

\* the state before main is entered
Fresh ==
    /\ col = 0
    /\ row = 0
    /\ opportunities = <<>>
    /\ df = <<>>
    /\ usersOut = NoFile
    /\ oppOut = NoFile
    /\ auditOut = FALSE
    /\ pc = "start"
    /\ abort = "none"
    /\ exitCode = Running
    /\ run = 1

\* the opportunity merge on every small table and header row of dates, run on
\* Sunday 4/6/2025, with no names to migrate
InitOpp ==
    /\ now = Ymd2Ord(2025, 4, 6)
    /\ zeroPad \in BOOLEAN
    /\ workbook = TRUE
    /\ headers \in SeqsUpTo(OppCells, MaxOppCols)
    /\ nameCells = <<>>
    /\ users = <<>>
    /\ hasNameCol \in BOOLEAN
    /\ oppTable \in SeqsUpTo(OppRows, MaxRows)
    /\ Fresh

NextOpp ==
    \/ LoadWorkbook
    \/ MergeUsers
    \/ ReadOpportunities
    \/ LiteralDateColumn
    \/ DateRangeColumn
    \/ ReturnOpportunities
    \/ ValidateRow
    \/ AppendMissing
    \/ WriteOpportunities
    \/ DumpJSON
    \/ Rerun

SpecOpp == InitOpp /\ [][NextOpp]_vars

\* the user merge on every small name column and users table, no opportunities
InitUsers ==
    /\ now = Ymd2Ord(2025, 10, 20)
    /\ zeroPad = FALSE
    /\ workbook = TRUE
    /\ headers = <<>>
    /\ nameCells \in SeqsUpTo(NameCellValues, MaxNames)
    /\ users \in SeqsUpTo(UserRows, MaxUsers)
    /\ hasNameCol = TRUE
    /\ oppTable = <<>>
    /\ Fresh

NextUsers ==
    \/ LoadWorkbook
    \/ MergeUsers
    \/ ReadOpportunities
    \/ ReturnOpportunities
    \/ AppendMissing
    \/ WriteOpportunities
    \/ DumpJSON
    \/ Rerun

SpecUsers == InitUsers /\ [][NextUsers]_vars

\* whole runs of main
MainHeaders ==
    { <<>>, <<SatFirstDay>>, <<MondayCell>>, <<NameCell>>, <<NoSuchDay>>,
      <<VolunteersCell, RangeAcrossEras>>, <<SunMenchaca, SatFirstDay>> }

MainTables == { <<>>, <<RowSat>>, <<RowMonday>>, <<RowSlash>> }

MainNameCells == { <<>>, <<StrCell(JoDo)>>, <<NotStrCell, StrCell(JoDo)>> }

MainUsers == { <<>>, <<UserRow("u1", <<"J", "o", " ", "D", "o">>)>> }

Init ==
    /\ now \in NowDays
    /\ zeroPad \in BOOLEAN
    /\ workbook \in BOOLEAN
    /\ headers \in MainHeaders
    /\ nameCells \in MainNameCells
    /\ users \in MainUsers
    /\ hasNameCol \in BOOLEAN
    /\ oppTable \in MainTables
    /\ Fresh

Next ==
    \/ LoadWorkbook
    \/ MergeUsers
    \/ ReadOpportunities
    \/ LiteralDateColumn
    \/ IgnoredColumn
    \/ DateRangeColumn
    \/ UnrecognizedColumn
    \/ ReturnOpportunities
    \/ ValidateRow
    \/ AppendMissing
    \/ WriteOpportunities
    \/ DumpJSON
    \/ Rerun

Spec == Init /\ [][Next]_vars

(***************************************************************************)
(* Properties of get_legacy_opportunities                                  *)
(***************************************************************************)
\* the calendar day a literal-date header cell names
CellDay(s) == IF IsISOHeader(s) THEN StrpISODate(SubSeq(s, 1, 10)) ELSE StrpMDY(s, FALSE)

\* the header cells whose pass of the column loop has completed
Processed == 1..(col - 1)

\* get_legacy_opportunities has returned its map
MapReturned == row >= 1

\* the label lists recorded for a calendar day
NamesOn(opps, day) == { opps[i].names : i \in { j \in 1..Len(opps) : StrpMDY(opps[j].date, FALSE) = day } }

EntryDays(opps) == { StrpMDY(opps[i].date, FALSE) : i \in 1..Len(opps) }

AsMap(opps) == { <<opps[i].date, opps[i].names>> : i \in 1..Len(opps) }

Orderings(n) == { q \in [1..n -> 1..n] : \A i, j \in 1..n : q[i] = q[j] => i = j }

\* C3: a processed literal-date cell naming a Saturday that is not after run time
\* and is not the missed day has exactly the label list of its era, each
\* boundary date belonging to the newer era.
C3_SaturdayEras ==
    \A i \in Processed :
        LET day == CellDay(headers[i])
        IN  ( /\ Branch(headers[i]) = "literal"
              /\ day # ParseError
              /\ Weekday(day) = 5
              /\ day <= now
              /\ day # Ymd2Ord(2024, 3, 3) )
            => NamesOn(opportunities, day) =
                 { IF day < Ymd2Ord(2025, 4, 5) THEN <<"Meal Prep">>
                   ELSE IF day < Ymd2Ord(2025, 10, 18) THEN <<"seventh", "Meal Prep">>
                   ELSE <<"riverside", "seventh", "Meal Prep">> }

C3_Witness ==
    /\ pc = "validate"
    /\ headers = <<SatFirstDay, SatRiversideISO>>
    /\ now = Ymd2Ord(2025, 10, 20)
    /\ NamesOn(opportunities, Ymd2Ord(2025, 4, 5)) = { <<"seventh", "Meal Prep">> }
    /\ NamesOn(opportunities, Ymd2Ord(2025, 10, 18)) = { <<"riverside", "seventh", "Meal Prep">> }

\* C4: in the returned map every Sunday entry before 4/5/2025 is [seventh] and
\* every Sunday entry on or after it is [menchaca], whichever column wrote it.
C4_SundayEras ==
    MapReturned =>
        \A i \in 1..Len(opportunities) :
            LET day == StrpMDY(opportunities[i].date, FALSE)
            IN Weekday(day) = 6 =>
                 opportunities[i].names =
                     IF day < Ymd2Ord(2025, 4, 5) THEN <<"seventh">> ELSE <<"menchaca">>

\* C5: the returned map has no entry for the missed day 3/3/2024 and none for
\* a day after run time.
C5_NoMissedNoFuture ==
    MapReturned =>
        \A day \in EntryDays(opportunities) : day # Ymd2Ord(2024, 3, 3) /\ day <= now

\* a pass of the column loop over a date-range cell
C6_RangeStep ==
    /\ pc = "classify"
    /\ col <= Len(headers)
    /\ Branch(headers[col]) = "range"
    /\ col' = col + 1

\* what such a pass may change
C6_RangeFrame ==
    LET lo == RangeStart(headers[col])
        hi == RangeEnd(headers[col])
    IN  /\ Len(opportunities') >= Len(opportunities)
        /\ SubSeq(opportunities', 1, Len(opportunities)) = opportunities
        /\ \A j \in (Len(opportunities) + 1)..Len(opportunities') :
              LET day == StrpMDY(opportunities'[j].date, FALSE)
              IN  /\ opportunities'[j].names = <<"seventh">>
                  /\ Weekday(day) = 6
                  /\ lo <= day /\ day <= hi
                  /\ day \notin EntryDays(opportunities)
        /\ \A day \in lo..hi :
              (Weekday(day) = 6 /\ day # Ymd2Ord(2024, 3, 3)) => day \in EntryDays(opportunities')

\* C6: a date-range column leaves every existing entry as it was, adds
\* [seventh] entries only, each for a Sunday inside the range that had no
\* entry, and leaves no Sunday of the range but the missed day without one.
C6_RangeOnlyFills == [][C6_RangeStep => C6_RangeFrame]_vars

C6_Witness ==
    /\ headers = <<SunMenchaca, RangeAcrossEras>>
    /\ col = 3
    /\ now = Ymd2Ord(2025, 10, 20)
    /\ NamesOn(opportunities, Ymd2Ord(2025, 4, 6)) = { <<"menchaca">> }
    /\ NamesOn(opportunities, Ymd2Ord(2025, 3, 30)) = { <<"seventh">> }

\* C10: when the column loop completes, every reordering of the same header
\* cells completes as well and yields the same date-to-labels mapping.
C10_OrderIndependent ==
    (pc = "validate" /\ abort = "none") =>
        \A q \in Orderings(Len(headers)) :
            LET r == get_legacy_opportunities([i \in 1..Len(headers) |-> headers[q[i]]],
                                              now, zeroPad)
            IN r.out = "ok" /\ AsMap(r.opps) = AsMap(opportunities)

C10_Witness ==
    /\ pc = "validate"
    /\ headers = <<RangeAcrossEras, SunMenchaca>>
    /\ now = Ymd2Ord(2025, 10, 20)
    /\ NamesOn(opportunities, Ymd2Ord(2025, 4, 6)) = { <<"menchaca">> }

(***************************************************************************)
(* Properties of the merges and of the run                                 *)
(***************************************************************************)
\* the rows of a table that the merge synthesized
Synthesized(r) == r.id = "uuid4"

\* the calendar day of a row, ParseError if its datetime does not parse
RowDay(r) == StrpTimestamp(r.datetime)

\* C1: a second run on the first run's output table, with the same map,
\* appends no row.
C1_SecondRunAppendsNothing ==
    (run = 2 /\ oppOut.written) => Len(oppOut.rows) = Len(oppTable)

\* C2: a written output table has the rows of the input table as a prefix,
\* unchanged and in order, and every row after them is a synthesized row for a
\* date and a name of the map.
C2_AppendOnly ==
    oppOut.written =>
        /\ Len(oppOut.rows) >= Len(oppTable)
        /\ SubSeq(oppOut.rows, 1, Len(oppTable)) = oppTable
        /\ \A j \in (Len(oppTable) + 1)..Len(oppOut.rows) :
              /\ Synthesized(oppOut.rows[j])
              /\ \E i \in 1..Len(opportunities) :
                    /\ RowDay(oppOut.rows[j]) = StrpMDY(opportunities[i].date, FALSE)
                    /\ \E k \in 1..Len(opportunities[i].names) :
                          oppOut.rows[j].title = opportunities[i].names[k]

C2_Witness ==
    /\ oppOut.written
    /\ run = 1
    /\ oppTable = <<RowSat, RowSun>>
    /\ Len(oppOut.rows) = 5

\* a row whose date has occurred and is no key of the map
Unexplained(r) ==
    /\ RowDay(r) # ParseError
    /\ RowDay(r) <= now
    /\ RowDay(r) \notin EntryDays(opportunities)

\* C7: once the map is returned, either the run is in the validation or was
\* cut short there, with no row synthesized and no output written, or the
\* table has no such row; and the validation abort happens only at such a row.
C7_Validation ==
    /\ MapReturned =>
          \/ /\ ~oppOut.written
             /\ df = oppTable
             /\ pc \in {"validate", "exited"}
             /\ row <= Len(oppTable)
             /\ pc = "exited" => abort \in {"unexplained", "exception"}
          \/ \A i \in 1..Len(oppTable) : ~Unexplained(oppTable[i])
    /\ abort = "unexplained" => Unexplained(oppTable[row])

C7_Witness ==
    /\ abort = "unexplained"
    /\ headers = <<SatFirstDay>>
    /\ oppTable = <<RowMonday, RowSun>>
    /\ row = 2
    /\ ~oppOut.written

\* C8: the exit status is 0 exactly when the run completed: every run that is
\* cut short ends with a status other than 0.
C8_ExitStatus ==
    pc = "exited" =>
        /\ exitCode = 0 => (usersOut.written /\ oppOut.written /\ auditOut)
        /\ abort # "none" => exitCode # 0

\* C9: once the users table is written, no legacy name is missing from it, and
\* the second run, on that table, appends no row.
C9_UsersIdempotent ==
    usersOut.written =>
        /\ get_all_names(nameCells) \ get_new_value(usersOut.rows) = {}
        /\ run = 2 => usersOut.rows = users

C9_Witness ==
    /\ run = 2
    /\ usersOut.written
    /\ nameCells = <<StrCell(JoDoShouted), StrCell(AlYu)>>
    /\ Len(users) = 3
    /\ users[1] = UserRow("u2", JoDo)
    /\ Synthesized(users[2]) /\ Synthesized(users[3])

====
